---- MODULE Spec2Model ----
(***************************************************************************)
(* homebridge-august: the per-lock state reconciliation and command        *)
(* pipeline of LockMechanism (devices/lock.ts) on top of deviceBase        *)
(* (devices/device.ts).                                                    *)
(*                                                                         *)
(* One lock handler is modelled.  A step of the model is one run of a      *)
(* handler between two network suspensions: the awaits on the logging      *)
(* helpers only yield to the microtask queue, so a timer tick, a push      *)
(* event or a network completion never interleaves inside such a run.      *)
(***************************************************************************)
EXTENDS Integers, Sequences, FiniteSets, TLC

(***************************************************************************)
(* HAP characteristic values used by the handler.                          *)
(***************************************************************************)
UNSECURED == 0
SECURED == 1
JAMMED == 2
UNKNOWN == 3
CONTACT_DETECTED == 0
CONTACT_NOT_DETECTED == 1
BATTERY_LEVEL_NORMAL == 0
BATTERY_LEVEL_LOW == 1

\* const retryCount = 1 in parseStatus and parseEventStatus
retryCount == 1
\* BatteryLevel seed when the persisted context holds none
DefaultBatteryLevel == 100
\* StatusLowBattery threshold of parseStatus
LowBatteryThreshold == 15
\* default refreshRate (seconds) of getDeviceRateSettings
DefaultRefreshRate == 30

(***************************************************************************)
(* Bounds of the model.                                                    *)
(***************************************************************************)
\* details fetches that may be outstanding at once
MaxFetch == 1
\* lock/unlock commands that may be outstanding at once
MaxCmds == 2
\* setLockTargetState calls in one debounce window
MaxBurst == 3
\* locks discoverDevices finds
MaxLocks == 2
\* refreshStatus calls a chain of parseStatus runs is followed for
MaxRefetch == 3

VARIABLES
    discovered,           \* the locks of discoverDevices (vendor data merged with the config), in order
    handled,              \* how many of them Lock has been called for
    accessories,          \* lockIds of this.accessories
    registered,           \* lockIds of the platform accessories the host holds
    published,            \* lockIds published as external accessories
    handlers,             \* lockIds a LockMechanism has been constructed for
    credentials,          \* this.config.credentials: isValidated, validateCode
    pluginConfig,         \* credentials of the saved config.json: isValidated, validateCode
    launch,               \* how far the didFinishLaunching callback has got
    services,             \* the services of the handler's accessory
    config,               \* platform config: options.refreshRate, options.pushRate
    device,               \* device config: hide_lock, hide_contactsensor, refreshRate, pushRate
    deviceRefreshRate,    \* deviceBase.deviceRefreshRate
    devicePushRate,       \* deviceBase.devicePushRate
    dueTime,              \* seconds given to debounceTime by the constructor; Undefined for NaN
    subscription,         \* the promise of subscribeAugust: "pending", "subscribed" or "rejected"
    refetches,            \* refreshStatus calls parseStatus has made since the last trigger
    LockCurrentState,     \* this.LockMechanism.LockCurrentState
    LockTargetState,      \* this.LockMechanism.LockTargetState
    ContactSensorState,   \* this.ContactSensor.ContactSensorState
    BatteryLevel,         \* this.Battery.BatteryLevel
    StatusLowBattery,     \* this.Battery.StatusLowBattery
    context,              \* accessory.context (persisted key/value store)
    host,                 \* characteristic values the host holds
    written,              \* characteristics given to Service.updateCharacteristic by the last step
    lockEvent,            \* this.lockEvent: <<>> while undefined, else <<event>>
    polled,               \* <<details>> after a step that handled a poll's details, else <<>>
    lockUpdateInProgress, \* this.lockUpdateInProgress
    debounce,             \* debounceTime timer of doLockUpdate: "idle" or "armed"
    taking,               \* skipWhile of the poll interval has stopped skipping
    fetchInFlight,        \* augustConfig.details calls not yet returned
    cmds,                 \* lock/unlock calls not yet returned, in send order
    unhandled,            \* an exception escaped a handler
    burst,                \* setLockTargetState calls since the debounce timer was last armed from idle
    lastSet,              \* the value of the last of them
    sent,                 \* commands sent since then
    logged                \* log lines of the last step

Platform == <<discovered, handled, accessories, registered, published, handlers,
              credentials, pluginConfig, launch>>

vars == <<discovered, handled, accessories, registered, published, handlers,
          credentials, pluginConfig, launch, services,
          config, device, deviceRefreshRate, devicePushRate, dueTime, subscription, refetches, LockCurrentState, LockTargetState,
          ContactSensorState, BatteryLevel, StatusLowBattery, context, host,
          written, lockEvent, polled, lockUpdateInProgress, debounce,
          taking, fetchInFlight, cmds, unhandled, burst, lastSet, sent, logged>>

(***************************************************************************)
(* Key/value stores (accessory.context, the host's characteristics).       *)
(***************************************************************************)
EmptyStore == [k \in {} |-> 0]

Put(f, k, v) == [x \in (DOMAIN f) \cup {k} |-> IF x = k THEN v ELSE f[x]]

\* f[k] || d: a stored 0 is replaced by the default
GetOr_Falsy(f, k, d) == IF k \in DOMAIN f /\ f[k] # 0 THEN f[k] ELSE d

\* f[k] ?? d
GetOr(f, k, d) == IF k \in DOMAIN f THEN f[k] ELSE d

(***************************************************************************)
(* Vendor payloads.                                                        *)
(***************************************************************************)
Snapshot(l, u, lg, ug, o, c, ds) ==
    [locked |-> l, unlocked |-> u, locking |-> lg, unlocking |-> ug,
     open |-> o, closed |-> c, doorState |-> ds]

\* battery is carried in thousandths (0.82 is 820)
Details(b, fw, s) == [battery |-> b, currentFirmwareVersion |-> fw, LockStatus |-> s]

(***************************************************************************)
(* The handler's object state as one record, so that the methods below     *)
(* are functions from state to state.  threw: an exception is propagating. *)
(* refreshStatus assigns this.lockDetails and this.lockStatus right before *)
(* parseStatus reads them and nothing reads them later, so the record      *)
(* starts each run without them; polled keeps what the last step handled.  *)
(***************************************************************************)
Self ==
    [LockCurrentState |-> LockCurrentState, LockTargetState |-> LockTargetState,
     ContactSensorState |-> ContactSensorState, BatteryLevel |-> BatteryLevel,
     StatusLowBattery |-> StatusLowBattery, context |-> context, host |-> host,
     written |-> {}, logged |-> {}, lockEvent |-> lockEvent,
     lockDetails |-> <<>>, threw |-> FALSE]

Store(st) ==
    /\ LockCurrentState' = st.LockCurrentState
    /\ LockTargetState' = st.LockTargetState
    /\ ContactSensorState' = st.ContactSensorState
    /\ BatteryLevel' = st.BatteryLevel
    /\ StatusLowBattery' = st.StatusLowBattery
    /\ context' = st.context
    /\ host' = st.host
    /\ written' = st.written
    /\ logged' = st.logged
    /\ lockEvent' = st.lockEvent
    /\ polled' = st.lockDetails

(***************************************************************************)
(* deviceBase                                                              *)
(***************************************************************************)
\* updateCharacteristic, had it skipped a value equal to the one the host holds
updateCharacteristic_OnlyWhenChanged(st, name, value) ==
    IF name \in DOMAIN st.host /\ st.host[name] = value
    THEN st
    ELSE [st EXCEPT !.host = Put(@, name, value),
                    !.context = Put(@, name, value),
                    !.written = @ \cup {name}]

\* Service.updateCharacteristic, then accessory.context[CharacteristicName] = value
updateCharacteristic(st, name, value) ==
    [st EXCEPT !.host = Put(@, name, value),
               !.context = Put(@, name, value),
               !.written = @ \cup {name}]

\* the log line statusCode writes for an error whose message starts with code
statusCode(st, code) ==
    [st EXCEPT !.logged = @ \cup
        {IF code = "100" THEN "Command successfully sent"
         ELSE IF code = "200" THEN "Request successful"
         ELSE IF code = "400" THEN "Bad Request"
         ELSE IF code = "429" THEN "Too Many Requests"
         ELSE "Unknown statusCode"}]

(***************************************************************************)
(* LockMechanism: parsing                                                  *)
(***************************************************************************)
\* Number((battery * 100).toFixed()), battery in thousandths: rounds to the
\* nearest integer, halves away from zero
BatteryPercent(b) == IF b >= 0 THEN (b + 5) \div 10 ELSE 0 - ((5 - b) \div 10)

\* LowBattery, had the comparison been <= 15
LowBattery_Inclusive(level) ==
    IF level <= LowBatteryThreshold THEN BATTERY_LEVEL_LOW ELSE BATTERY_LEVEL_NORMAL

LowBattery(level) ==
    IF level < LowBatteryThreshold THEN BATTERY_LEVEL_LOW ELSE BATTERY_LEVEL_NORMAL

\* LockStateOf, had the retry test included a count of 1
LockStateOf_FirstRetry(s) ==
    IF s.locked THEN SECURED
    ELSE IF s.unlocked THEN UNSECURED
    ELSE IF retryCount >= 1 THEN JAMMED ELSE UNKNOWN

\* locked ? SECURED : unlocked ? UNSECURED : retryCount > 1 ? JAMMED : UNKNOWN
LockStateOf(s) ==
    IF s.locked THEN SECURED
    ELSE IF s.unlocked THEN UNSECURED
    ELSE IF retryCount > 1 THEN JAMMED ELSE UNKNOWN

\* doorState.includes(word) on the doorState strings of the model
Includes(ds, word) == ds = word

\* parseStatusLock, had it counted a second undetermined reading as a retry
\* and reported JAMMED
parseStatusLock_Retry(st) ==
    IF device.hide_lock THEN st
    ELSE IF st.lockEvent = <<>> THEN [st EXCEPT !.threw = TRUE]
    ELSE IF st.lockEvent[1].locked # st.lockEvent[1].unlocked
         THEN [st EXCEPT !.LockCurrentState =
                 IF LockStateOf(st.lockDetails[1].LockStatus) = UNKNOWN /\ @ = UNKNOWN
                 THEN JAMMED
                 ELSE LockStateOf(st.lockDetails[1].LockStatus)]
         ELSE st

\* parseStatus, Lock Mechanism part.  The guard reads this.lockEvent, which is
\* undefined until the first push event: reading its state then throws.
parseStatusLock(st) ==
    IF device.hide_lock THEN st
    ELSE IF st.lockEvent = <<>> THEN [st EXCEPT !.threw = TRUE]
    ELSE IF st.lockEvent[1].locked # st.lockEvent[1].unlocked
         THEN [st EXCEPT !.LockCurrentState = LockStateOf(st.lockDetails[1].LockStatus)]
         ELSE st

\* a LockStatus whose doorState is absent: reading .includes of it throws
NoDoorState == "undefined"

\* parseStatus, Contact Sensor part
parseStatusContact(st) ==
    LET s == st.lockDetails[1].LockStatus IN
    IF device.hide_contactsensor THEN st
    ELSE IF ~s.open /\ ~s.closed /\ s.doorState = NoDoorState
         THEN [st EXCEPT !.threw = TRUE]
    ELSE [st EXCEPT !.ContactSensorState =
            IF s.open THEN CONTACT_NOT_DETECTED
            ELSE IF s.closed THEN CONTACT_DETECTED
            ELSE IF Includes(s.doorState, "open") THEN CONTACT_NOT_DETECTED
            ELSE IF Includes(s.doorState, "closed") THEN CONTACT_DETECTED
            ELSE @]

\* parseStatus, BatteryLevel and StatusLowBattery
parseStatusBattery(st) ==
    LET level == BatteryPercent(st.lockDetails[1].battery) IN
    [st EXCEPT !.BatteryLevel = level, !.StatusLowBattery = LowBattery(level)]

\* parseStatus, Firmware Version
parseStatusFirmware(st) ==
    LET fw == st.lockDetails[1].currentFirmwareVersion IN
    IF "currentFirmwareVersion" \in DOMAIN st.context
       /\ st.context["currentFirmwareVersion"] = fw
    THEN st
    ELSE [st EXCEPT !.logged = @ \cup {"Firmware Version changed"},
                    !.host = Put(Put(@, "HardwareRevision", fw), "FirmwareRevision", fw),
                    !.context = Put(@, "currentFirmwareVersion", fw)]

parseStatus(st) ==
    LET a == parseStatusLock(st)
        b == parseStatusContact(a)
    IN  IF a.threw THEN a
        ELSE IF b.threw THEN b
        ELSE parseStatusFirmware(parseStatusBattery(b))

parseEventStatus(st) ==
    LET e == st.lockEvent[1]
        a == IF ~device.hide_lock /\ e.locked # e.unlocked
             THEN [st EXCEPT !.LockCurrentState = LockStateOf(e)]
             ELSE st
    IN
    IF ~device.hide_lock /\ (e.unlocking \/ e.locking) THEN st
    ELSE IF device.hide_contactsensor THEN a
    ELSE [a EXCEPT !.ContactSensorState =
            IF e.open THEN CONTACT_NOT_DETECTED
            ELSE IF e.closed THEN CONTACT_DETECTED
            ELSE IF e.doorState = "open" THEN CONTACT_NOT_DETECTED
            ELSE IF e.doorState = "closed" THEN CONTACT_DETECTED
            ELSE @]

(***************************************************************************)
(* LockMechanism: host update                                              *)
(***************************************************************************)
updateHomeKitCharacteristics(st) ==
    LET a == IF device.hide_lock THEN st
             ELSE updateCharacteristic(
                    updateCharacteristic(st, "LockTargetState", st.LockTargetState),
                    "LockCurrentState", st.LockCurrentState)
        b == updateCharacteristic(
               updateCharacteristic(a, "BatteryLevel", a.BatteryLevel),
               "StatusLowBattery", a.StatusLowBattery)
    IN  IF device.hide_contactsensor THEN b
        ELSE updateCharacteristic(b, "ContactSensorState", b.ContactSensorState)

\* refreshStatus from the return of augustConfig.details on: store, parse,
\* update; an exception of the parse is caught and logged
refreshStatusDetails(st, d) ==
    LET p == parseStatus([st EXCEPT !.lockDetails = <<d>>]) IN
    IF p.threw
    THEN [statusCode(p, "other") EXCEPT !.threw = FALSE,
                                        !.logged = @ \cup {"error pushChanges"}]
    ELSE updateHomeKitCharacteristics(p)

\* the push subscription's callback
AugustEvent(st, e) ==
    updateHomeKitCharacteristics(parseEventStatus([st EXCEPT !.lockEvent = <<e>>]))

(***************************************************************************)
(* Rate settings.  An optional number of the configuration that is not set *)
(* is Undefined.                                                           *)
(***************************************************************************)
Undefined == 0 - 1

\* x ? ... : ... and if (x): undefined and 0 are both false
Truthy(x) == x # Undefined /\ x # 0

\* x ?? d: only undefined is replaced
Nullish(x, d) == IF x # Undefined THEN x ELSE d

\* the default window of the debounce of doLockUpdate, in seconds
DefaultPushRate == 1
\* the lowest non-zero refreshRate the warning of the first listing of
\* device.ts speaks of
RefreshRateFloor == 1800
\* the default refreshRate of that listing
LegacyDefaultRefreshRate == 5

\* deviceBase.getDeviceRateSettings of unnamed/part_001, which reads the
\* platform's options itself
getDeviceRateSettings(dev, cfg) ==
    [deviceRefreshRate |->
        IF dev.refreshRate = 0 THEN 0
        ELSE Nullish(dev.refreshRate, Nullish(cfg.options.refreshRate, DefaultRefreshRate)),
     devicePushRate |->
        Nullish(dev.pushRate, Nullish(cfg.options.pushRate, DefaultPushRate))]

\* AugustPlatform.getPlatformRateSettings, first listing of platform.ts
getPlatformRateSettings(cfg) ==
    [platformRefreshRate |->
        IF Truthy(cfg.options.refreshRate) THEN cfg.options.refreshRate ELSE Undefined,
     platformPushRate |->
        IF Truthy(cfg.options.pushRate) THEN cfg.options.pushRate ELSE Undefined]

\* deviceBase.getDeviceRateSettings of the second listing of device.ts, which
\* reads the rates the platform has kept
Platform_getDeviceRateSettings(dev, cfg) ==
    LET platform == getPlatformRateSettings(cfg) IN
    [deviceRefreshRate |->
        Nullish(dev.refreshRate, Nullish(platform.platformRefreshRate, DefaultRefreshRate)),
     devicePushRate |->
        Nullish(dev.pushRate, Nullish(platform.platformPushRate, DefaultPushRate))]

\* deviceBase.getDeviceRateSettings of the first listing of device.ts: the
\* first block raises a device refreshRate below the floor, the block after
\* it ("// refreshRate") assigns deviceRefreshRate again in each branch
Floor_getDeviceRateSettings(dev, cfg) ==
    LET raised == IF ~Truthy(dev.refreshRate) THEN Undefined
                  ELSE IF dev.refreshRate < RefreshRateFloor THEN RefreshRateFloor
                  ELSE dev.refreshRate
        again(rate) == IF Truthy(dev.refreshRate) THEN dev.refreshRate
                       ELSE IF Truthy(cfg.options.refreshRate) THEN cfg.options.refreshRate
                       ELSE LegacyDefaultRefreshRate
    IN  [deviceRefreshRate |-> again(raised),
         devicePushRate |->
            IF Truthy(dev.pushRate) THEN dev.pushRate
            ELSE IF Truthy(cfg.options.pushRate) THEN cfg.options.pushRate
            ELSE DefaultPushRate]

(***************************************************************************)
(* Inputs.                                                                 *)
(***************************************************************************)
DeviceConfigs ==
    {[hide_lock |-> FALSE, hide_contactsensor |-> FALSE],
     [hide_lock |-> TRUE, hide_contactsensor |-> FALSE],
     [hide_lock |-> FALSE, hide_contactsensor |-> TRUE]}

\* refreshRate 0 disables polling
RefreshRates == {0, DefaultRefreshRate}

\* the configurations a handler is constructed with: those of the
\* reconciliation runs, and those of the command pipeline runs
MergeInstallations ==
    {<<c, DefaultRefreshRate>> : c \in DeviceConfigs}
    \cup {<<[hide_lock |-> FALSE, hide_contactsensor |-> FALSE], 0>>}
PipeInstallations ==
    {<<[hide_lock |-> h, hide_contactsensor |-> FALSE], DefaultRefreshRate>> : h \in BOOLEAN}
    \cup {<<[hide_lock |-> FALSE, hide_contactsensor |-> FALSE], 0>>}

\* a platform config without options
NoOptions == [options |-> [refreshRate |-> Undefined, pushRate |-> Undefined]]

\* the rate settings of the configuration: device and platform level
RateDevices ==
    {[hide_lock |-> FALSE, hide_contactsensor |-> FALSE, refreshRate |-> r, pushRate |-> p] :
        r \in {Undefined, 0, 10, RefreshRateFloor, 3600}, p \in {Undefined, 0, 5}}
RateOptions ==
    {[options |-> [refreshRate |-> r, pushRate |-> p]] :
        r \in {Undefined, 60}, p \in {Undefined, 0, 5}}

\* debounceTime(this.devicePushRate * 1000) in the constructor of
\* LockMechanism.  The constructor of deviceBase calls getDeviceRateSettings
\* without await, and that runs as far as its first await, which follows the
\* assignment of deviceRefreshRate and precedes that of devicePushRate: the
\* field is still undefined when the pipeline is built
PipelineDueTime == Undefined

\* debounceTime(this.platform.config.options!.pushRate! * 1000) of the first
\* listing of lock.ts
Lock_PipelineDueTime(cfg) == cfg.options.pushRate

\* a handler of each listing, constructed with these settings
RateInstallations ==
    {<<dev, cfg, getDeviceRateSettings(dev, cfg), PipelineDueTime>> :
              dev \in RateDevices, cfg \in RateOptions}
    \cup {<<dev, cfg, Platform_getDeviceRateSettings(dev, cfg), PipelineDueTime>> :
              dev \in RateDevices, cfg \in RateOptions}
    \cup {<<dev, cfg, Floor_getDeviceRateSettings(dev, cfg), Lock_PipelineDueTime(cfg)>> :
              dev \in RateDevices, cfg \in RateOptions}

\* values the host hands to setLockTargetState
TargetValues == {UNSECURED, SECURED}

\* first three characters of the message of a vendor error
ErrorCodes == {"429", "500"}

LockedSnap == Snapshot(TRUE, FALSE, FALSE, FALSE, FALSE, TRUE, "closed")
UnlockedSnap == Snapshot(FALSE, TRUE, FALSE, FALSE, FALSE, TRUE, "closed")

\* every combination of the four lock flags, door closed
FlagSnaps ==
    {Snapshot(l, u, lg, ug, FALSE, TRUE, "closed") : l, u, lg, ug \in BOOLEAN}

\* the door inputs, lock locked; the last two also with a transient flag
DoorSnaps ==
    {Snapshot(TRUE, FALSE, lg, FALSE, TRUE, TRUE, "closed") : lg \in BOOLEAN}
    \cup {Snapshot(TRUE, FALSE, FALSE, FALSE, FALSE, TRUE, "open"),
          Snapshot(TRUE, FALSE, FALSE, FALSE, FALSE, FALSE, "closed"),
          Snapshot(TRUE, FALSE, FALSE, FALSE, FALSE, FALSE, "init")}
    \cup {Snapshot(TRUE, FALSE, lg, FALSE, FALSE, FALSE, "open") : lg \in BOOLEAN}

\* battery readings in thousandths: below 0, 0.07, 0.14, 0.15, 0.82, above 1
BatteryInputs == {0 - 50, 70, 140, 150, 820, 1200}

FirmwareVersions == {1, 2}

\* the payloads of the reconciliation runs
MergeSnaps == FlagSnaps \cup DoorSnaps
MergeDetails ==
    {Details(820, 1, s) : s \in MergeSnaps}
    \cup {Details(b, 1, LockedSnap) : b \in BatteryInputs}
    \cup {Details(820, fw, UnlockedSnap) : fw \in FirmwareVersions}
    \cup {Details(0, 1, Snapshot(FALSE, TRUE, FALSE, FALSE, FALSE, FALSE, NoDoorState))}

\* the payloads of the command pipeline runs
PipeSnaps ==
    {LockedSnap, UnlockedSnap,
     Snapshot(FALSE, FALSE, FALSE, TRUE, FALSE, TRUE, "closed")}
PipeDetails ==
    {Details(820, 1, s) : s \in {LockedSnap, UnlockedSnap}}
    \cup {Details(0, 1, LockedSnap)}

(***************************************************************************)
(* LockMechanism: construction                                             *)
(***************************************************************************)
\* the services a cached accessory may be restored with: none (a new
\* accessory) or those of an earlier run that hid nothing
AllServices == {"LockMechanism", "ContactSensor", "Battery"}
CachedServices == {{}, AllServices}

\* the services of the accessory after the constructor.  A hidden service is
\* removed under if (this.LockMechanism?.Service) / if (this.ContactSensor?.Service),
\* fields that no statement has assigned when the constructor tests them
AccessoryServices(dev, svcs) ==
    LET LockMechanism == <<>>
        ContactSensor == <<>>
        a == IF dev.hide_lock
             THEN IF LockMechanism # <<>> THEN svcs \ {"LockMechanism"} ELSE svcs
             ELSE svcs \cup {"LockMechanism"}
        b == IF dev.hide_contactsensor
             THEN IF ContactSensor # <<>> THEN a \ {"ContactSensor"} ELSE a
             ELSE a \cup {"ContactSensor"}
    IN  b \cup {"Battery"}

\* the constructor, from the persisted context ctx.  It ends with an initial
\* refreshStatus (a details fetch unless refreshRate is 0), the push
\* subscription, the poll interval and the doLockUpdate pipeline.
Construct(ctx) ==
    /\ LockTargetState' = GetOr(ctx, "LockTargetState", SECURED)
    /\ LockCurrentState' = GetOr(ctx, "LockCurrentState", SECURED)
    /\ ContactSensorState' = GetOr(ctx, "ContactSensorState", CONTACT_NOT_DETECTED)
    /\ BatteryLevel' = GetOr(ctx, "BatteryLevel", DefaultBatteryLevel)
    /\ StatusLowBattery' = GetOr(ctx, "StatusLowBattery", BATTERY_LEVEL_NORMAL)
    /\ context' = ctx
    /\ written' = {}
    /\ logged' = {}
    /\ lockEvent' = <<>>
    /\ polled' = <<>>
    /\ lockUpdateInProgress' = FALSE
    /\ debounce' = "idle"
    /\ taking' = FALSE
    /\ fetchInFlight' = IF deviceRefreshRate # 0 THEN 1 ELSE 0
    /\ cmds' = <<>>
    /\ burst' = 0
    /\ lastSet' = GetOr(ctx, "LockTargetState", SECURED)
    /\ sent' = <<>>
    /\ services' = AccessoryServices(device, services)

\* discoverDevices has run, and has registered the handler's lock
\* a session validated at an earlier launch, discoverDevices under way
Validated ==
    /\ credentials = [isValidated |-> "true", validateCode |-> "undefined"]
    /\ pluginConfig = credentials
    /\ launch = "Lock"

PlatformDone ==
    /\ discovered = <<[lockId |-> 1, homeKitEnabled |-> FALSE, overrideHomeKitEnabled |-> FALSE,
                       hide_device |-> FALSE, external |-> FALSE]>>
    /\ handled = 1
    /\ accessories = {1} /\ registered = {1} /\ published = {} /\ handlers = {1}
    /\ Validated

Fresh ==
    /\ \E svcs \in CachedServices : services = AccessoryServices(device, svcs)
    /\ LockTargetState = SECURED
    /\ LockCurrentState = SECURED
    /\ ContactSensorState = CONTACT_NOT_DETECTED
    /\ BatteryLevel = DefaultBatteryLevel
    /\ StatusLowBattery = BATTERY_LEVEL_NORMAL
    /\ context = EmptyStore
    /\ host = EmptyStore
    /\ written = {}
    /\ logged = {}
    /\ lockEvent = <<>>
    /\ polled = <<>>
    /\ lockUpdateInProgress = FALSE
    /\ debounce = "idle"
    /\ taking = FALSE
    /\ fetchInFlight = (IF deviceRefreshRate # 0 THEN 1 ELSE 0)
    /\ cmds = <<>>
    /\ unhandled = FALSE
    /\ burst = 0
    /\ lastSet = SECURED
    /\ sent = <<>>

Constructed(installations) ==
    /\ \E c \in installations : device = c[1] /\ deviceRefreshRate = c[2]
    /\ config = NoOptions
    /\ devicePushRate = DefaultPushRate
    /\ dueTime = PipelineDueTime
    /\ subscription = "subscribed"
    /\ refetches = 0
    /\ Fresh
    /\ PlatformDone

Init == Constructed(PipeInstallations)

InitMerge == Constructed(MergeInstallations)

InitRates ==
    /\ \E c \in RateInstallations :
          /\ device = c[1] /\ config = c[2]
          /\ deviceRefreshRate = c[3].deviceRefreshRate
          /\ devicePushRate = c[3].devicePushRate
          /\ dueTime = c[4]
    /\ subscription = "subscribed"
    /\ refetches = 0
    /\ Fresh
    /\ PlatformDone

\* the process restarts: a new handler is constructed from the persisted
\* context, and its subscription is taken as far as the old one was
Restart ==
    /\ Construct(context)
    /\ UNCHANGED Platform
    /\ UNCHANGED <<config, device, deviceRefreshRate, devicePushRate, dueTime, subscription, refetches, host, unhandled>>

(***************************************************************************)
(* AugustPlatform: discovery and registration                              *)
(***************************************************************************)
Handler == <<services, config, device, deviceRefreshRate, devicePushRate, dueTime, subscription, refetches,
             LockCurrentState, LockTargetState, ContactSensorState, BatteryLevel,
             StatusLowBattery, context, host, written, lockEvent, polled,
             lockUpdateInProgress, debounce, taking, fetchInFlight, cmds, unhandled,
             burst, lastSet, sent, logged>>

\* the discovered locks: lockId i at position i, homeKitEnabled from the
\* vendor, the other fields from the lock's entry of the config
DiscoveredDevices(id) ==
    {[lockId |-> id, homeKitEnabled |-> hk, overrideHomeKitEnabled |-> ov,
      hide_device |-> hd, external |-> ex] : hk, ov, hd, ex \in BOOLEAN}
DiscoveredLists ==
    {l \in [1..MaxLocks -> UNION {DiscoveredDevices(id) : id \in 1..MaxLocks}] :
        \A i \in 1..MaxLocks : l[i].lockId = i}

\* registerDevice, had it no branch for overrideHomeKitEnabled
registerDevice_NoOverride(dev) == ~dev.hide_device /\ ~dev.homeKitEnabled

\* registerDevice: the value it returns
registerDevice(dev) ==
    IF ~dev.hide_device /\ ~dev.homeKitEnabled THEN TRUE
    ELSE IF dev.homeKitEnabled /\ dev.overrideHomeKitEnabled THEN TRUE
    ELSE IF dev.homeKitEnabled /\ ~dev.overrideHomeKitEnabled THEN FALSE
    ELSE FALSE

\* Lock(device) for the next discovered lock: restore, unregister, add or skip
Lock ==
    /\ launch = "Lock"
    /\ handled < Len(discovered)
    /\ LET dev == discovered[handled + 1]
           id == dev.lockId
       IN  IF id \in accessories
           THEN IF registerDevice(dev)
                THEN /\ handlers' = handlers \cup {id}
                     /\ UNCHANGED <<accessories, registered, published>>
                ELSE /\ registered' = registered \ {id}
                     /\ UNCHANGED <<accessories, published, handlers>>
           ELSE IF registerDevice(dev)
                THEN /\ handlers' = handlers \cup {id}
                     /\ IF dev.external
                        THEN published' = published \cup {id} /\ UNCHANGED registered
                        ELSE registered' = registered \cup {id} /\ UNCHANGED published
                     /\ accessories' = accessories \cup {id}
                ELSE UNCHANGED <<accessories, registered, published, handlers>>
    /\ handled' = handled + 1
    /\ UNCHANGED <<discovered, credentials, pluginConfig, launch>>
    /\ UNCHANGED Handler

\* didFinishLaunching: the cached accessories are restored and registered,
\* the locks are discovered, no handler exists yet
InitPlatform ==
    /\ discovered \in DiscoveredLists
    /\ handled = 0
    /\ accessories \in SUBSET (1..MaxLocks)
    /\ registered = accessories
    /\ published = {}
    /\ handlers = {}
    /\ Validated
    /\ config = NoOptions
    /\ device = [hide_lock |-> FALSE, hide_contactsensor |-> FALSE]
    /\ deviceRefreshRate = DefaultRefreshRate
    /\ devicePushRate = DefaultPushRate
    /\ dueTime = PipelineDueTime
    /\ subscription = "subscribed"
    /\ refetches = 0
    /\ Fresh

\* the credentials of the config at launch; validateCode "undefined" when absent
LaunchCredentials ==
    [isValidated : {"true", "false", "undefined"}, validateCode : {"undefined", "123456"}]

\* the platform when Homebridge fires didFinishLaunching: the cached
\* accessories are restored, nothing is discovered
InitLaunch ==
    /\ discovered = <<>>
    /\ handled = 0
    /\ accessories \in SUBSET (1..MaxLocks)
    /\ registered = accessories
    /\ published = {}
    /\ handlers = {}
    /\ credentials \in LaunchCredentials
    /\ pluginConfig = credentials
    /\ launch = "didFinishLaunching"
    /\ config = NoOptions
    /\ device = [hide_lock |-> FALSE, hide_contactsensor |-> FALSE]
    /\ deviceRefreshRate = DefaultRefreshRate
    /\ devicePushRate = DefaultPushRate
    /\ dueTime = PipelineDueTime
    /\ subscription = "subscribed"
    /\ refetches = 0
    /\ Fresh

\* the didFinishLaunching callback up to its first vendor call: validated()
\* when isValidated is false or undefined, discoverDevices otherwise;
\* validated() calls August.validate when a validateCode is configured and
\* otherwise saves the installId, calls August.authorize and returns
didFinishLaunching ==
    /\ launch = "didFinishLaunching"
    /\ launch' = IF credentials.isValidated \in {"false", "undefined"}
                 THEN IF credentials.validateCode # "undefined" THEN "validate" ELSE "done"
                 ELSE "discoverDevices"
    /\ UNCHANGED <<discovered, handled, accessories, registered, published, handlers,
                   credentials, pluginConfig>>
    /\ UNCHANGED Handler

\* validateReturns, had validated() gone on to discoverDevices whatever
\* August.validate returned
validateReturns_Unchecked(isValidated) ==
    /\ launch = "validate"
    /\ credentials' = [credentials EXCEPT !.isValidated = isValidated]
    /\ pluginConfig' = [isValidated |-> isValidated,
                        validateCode |-> IF isValidated = "true" THEN "undefined"
                                         ELSE pluginConfig.validateCode]
    /\ launch' = "discoverDevices"
    /\ UNCHANGED <<discovered, handled, accessories, registered, published, handlers>>
    /\ UNCHANGED Handler

\* August.validate returns isValidated: the flag is stored and saved, the
\* validateCode is dropped from the saved config and discoverDevices is
\* called only if it is true
validateReturns(isValidated) ==
    /\ launch = "validate"
    /\ credentials' = [credentials EXCEPT !.isValidated = isValidated]
    /\ pluginConfig' = [isValidated |-> isValidated,
                        validateCode |-> IF isValidated = "true" THEN "undefined"
                                         ELSE pluginConfig.validateCode]
    /\ launch' = IF isValidated = "true" THEN "discoverDevices" ELSE "done"
    /\ UNCHANGED <<discovered, handled, accessories, registered, published, handlers>>
    /\ UNCHANGED Handler

\* August.validate rejects: the callback's catch logs it
validateRejects ==
    /\ launch = "validate"
    /\ launch' = "done"
    /\ UNCHANGED <<discovered, handled, accessories, registered, published, handlers,
                   credentials, pluginConfig>>
    /\ UNCHANGED Handler

\* discoverDevices: August.details returns the locks, merged with the config
discoverDevices ==
    /\ launch = "discoverDevices"
    /\ discovered' \in DiscoveredLists
    /\ launch' = "Lock"
    /\ UNCHANGED <<handled, accessories, registered, published, handlers,
                   credentials, pluginConfig>>
    /\ UNCHANGED Handler

\* August.details rejects: the caller's catch logs it
discoverDevicesRejects ==
    /\ launch = "discoverDevices"
    /\ launch' = "done"
    /\ UNCHANGED <<discovered, handled, accessories, registered, published, handlers,
                   credentials, pluginConfig>>
    /\ UNCHANGED Handler

(***************************************************************************)
(* Poll scheduler                                                          *)
(***************************************************************************)
Pipeline == <<lockUpdateInProgress, debounce, cmds, burst, lastSet, sent>>
Canonical == <<LockCurrentState, LockTargetState, ContactSensorState, BatteryLevel,
               StatusLowBattery, context, host, lockEvent>>

\* skipWhile(() => this.lockUpdateInProgress): a tick is dropped while the
\* predicate has held at every tick so far
TickSkip ==
    /\ ~taking
    /\ lockUpdateInProgress
    /\ written' = {} /\ logged' = {} /\ polled' = <<>>
    /\ UNCHANGED Platform /\ UNCHANGED <<services, config, device, deviceRefreshRate, devicePushRate, dueTime, subscription, refetches, taking, fetchInFlight, unhandled>>
    /\ UNCHANGED Pipeline
    /\ UNCHANGED Canonical

\* the tick passes skipWhile; refreshStatus calls augustConfig.details
TickFetch ==
    /\ refetches' = 0
    /\ taking \/ ~lockUpdateInProgress
    /\ deviceRefreshRate # 0
    /\ fetchInFlight < MaxFetch
    /\ taking' = TRUE
    /\ fetchInFlight' = fetchInFlight + 1
    /\ written' = {} /\ logged' = {} /\ polled' = <<>>
    /\ UNCHANGED Platform /\ UNCHANGED <<services, config, device, deviceRefreshRate, devicePushRate, dueTime, subscription, unhandled>>
    /\ UNCHANGED Pipeline
    /\ UNCHANGED Canonical

\* TickOff, had refreshStatus fetched without looking at the refresh rate
TickOff_Unguarded ==
    /\ taking \/ ~lockUpdateInProgress
    /\ deviceRefreshRate = 0
    /\ fetchInFlight < MaxFetch
    /\ taking' = TRUE
    /\ fetchInFlight' = fetchInFlight + 1
    /\ written' = {} /\ logged' = {} /\ polled' = <<>>
    /\ UNCHANGED Platform /\ UNCHANGED <<services, config, device, deviceRefreshRate, devicePushRate, dueTime, subscription, refetches, unhandled>>
    /\ UNCHANGED Pipeline
    /\ UNCHANGED Canonical

\* the tick passes skipWhile; refreshStatus does nothing as refreshRate is 0
TickOff ==
    /\ taking \/ ~lockUpdateInProgress
    /\ deviceRefreshRate = 0
    /\ taking' = TRUE
    /\ written' = {} /\ logged' = {} /\ polled' = <<>>
    /\ UNCHANGED Platform /\ UNCHANGED <<services, config, device, deviceRefreshRate, devicePushRate, dueTime, subscription, refetches, fetchInFlight, unhandled>>
    /\ UNCHANGED Pipeline
    /\ UNCHANGED Canonical

\* augustConfig.details returns d
PollReturn(d) ==
    /\ fetchInFlight > 0
    /\ fetchInFlight' = fetchInFlight - 1
    /\ Store(refreshStatusDetails(Self, d))
    /\ UNCHANGED Platform /\ UNCHANGED <<services, config, device, deviceRefreshRate, devicePushRate, dueTime, subscription, refetches, taking, unhandled>>
    /\ UNCHANGED Pipeline

\* augustConfig.details rejects with an error whose message starts with code
PollFail(code) ==
    /\ fetchInFlight > 0
    /\ fetchInFlight' = fetchInFlight - 1
    /\ Store([statusCode(Self, code) EXCEPT !.logged = @ \cup {"error pushChanges"}])
    /\ UNCHANGED Platform /\ UNCHANGED <<services, config, device, deviceRefreshRate, devicePushRate, dueTime, subscription, refetches, taking, unhandled>>
    /\ UNCHANGED Pipeline

(***************************************************************************)
(* Push subscription                                                       *)
(***************************************************************************)
PushEvent(e) ==
    /\ subscription = "subscribed"
    /\ Store(AugustEvent(Self, e))
    /\ UNCHANGED Platform /\ UNCHANGED <<services, config, device, deviceRefreshRate, devicePushRate, dueTime, subscription, refetches, taking, fetchInFlight, unhandled>>
    /\ UNCHANGED Pipeline

\* subscribeAugust, which the constructor calls without await: the
\* credentials are set and August.subscribe resolves
subscribeAugustOk ==
    /\ subscription = "pending"
    /\ subscription' = "subscribed"
    /\ written' = {} /\ logged' = {} /\ polled' = <<>>
    /\ UNCHANGED Platform /\ UNCHANGED <<services, config, device, deviceRefreshRate, devicePushRate, dueTime, refetches, taking, fetchInFlight, unhandled>>
    /\ UNCHANGED Pipeline
    /\ UNCHANGED Canonical

\* augustCredentials throws 'Missing Credentials', or August.subscribe
\* rejects: subscribeAugust has no try/catch, so its promise rejects, and the
\* constructor attached no handler to that promise
subscribeAugustRejects ==
    /\ subscription = "pending"
    /\ subscription' = "rejected"
    /\ unhandled' = TRUE
    /\ written' = {} /\ logged' = {} /\ polled' = <<>>
    /\ UNCHANGED Platform /\ UNCHANGED <<services, config, device, deviceRefreshRate, devicePushRate, dueTime, refetches, taking, fetchInFlight>>
    /\ UNCHANGED Pipeline
    /\ UNCHANGED Canonical

(***************************************************************************)
(* Command pipeline                                                        *)
(***************************************************************************)
Polling == <<taking, fetchInFlight>>

\* CommandFor with the two commands exchanged
CommandFor_Exchanged(target) == IF target = UNSECURED THEN "lock" ELSE "unlock"

\* LockTargetState UNSECURED ? augustConfig.unlock : augustConfig.lock
CommandFor(target) == IF target = UNSECURED THEN "unlock" ELSE "lock"

RemoveAt(s, i) == [j \in 1..(Len(s) - 1) |-> IF j < i THEN s[j] ELSE s[j + 1]]

\* the host's onSet of LockTargetState; doLockUpdate.next() runs the tap and
\* (re)arms the debounceTime timer
setLockTargetState(value) ==
    /\ ~device.hide_lock
    /\ debounce = "armed" => burst < MaxBurst
    /\ LockTargetState' = value
    /\ context' = Put(context, "LockTargetState", value)
    /\ lockUpdateInProgress' = TRUE
    /\ debounce' = "armed"
    /\ burst' = IF debounce = "armed" THEN burst + 1 ELSE 1
    /\ lastSet' = value
    /\ sent' = IF debounce = "armed" THEN sent ELSE <<>>
    /\ written' = {} /\ logged' = {} /\ polled' = <<>>
    /\ UNCHANGED Platform /\ UNCHANGED <<services, config, device, deviceRefreshRate, devicePushRate, dueTime, subscription, refetches, LockCurrentState, ContactSensorState,
                   BatteryLevel, StatusLowBattery, host, lockEvent, cmds, unhandled>>
    /\ UNCHANGED Polling

\* the debounce timer expires; pushChanges finds target and current state
\* different and calls augustConfig.unlock or augustConfig.lock
pushChangesSend ==
    /\ debounce = "armed"
    /\ LockTargetState # LockCurrentState
    /\ Len(cmds) < MaxCmds
    /\ debounce' = "idle"
    /\ cmds' = Append(cmds, CommandFor(LockTargetState))
    /\ sent' = Append(sent, CommandFor(LockTargetState))
    /\ written' = {} /\ logged' = {} /\ polled' = <<>>
    /\ UNCHANGED Platform /\ UNCHANGED <<services, config, device, deviceRefreshRate, devicePushRate, dueTime, subscription, refetches, lockUpdateInProgress, burst, lastSet, unhandled>>
    /\ UNCHANGED Polling
    /\ UNCHANGED Canonical

\* pushChangesNoChanges, had it always left the target at SECURED
pushChangesNoChanges_Secured(st) ==
    updateHomeKitCharacteristics([st EXCEPT !.LockTargetState = SECURED])

\* pushChanges when target and current state are equal: no command
pushChangesNoChanges(st) ==
    updateHomeKitCharacteristics(
        [st EXCEPT !.LockTargetState =
            IF st.LockCurrentState = SECURED THEN SECURED ELSE UNSECURED])

pushChangesSkip ==
    /\ debounce = "armed"
    /\ LockTargetState = LockCurrentState
    /\ debounce' = "idle"
    /\ Store(pushChangesNoChanges(Self))
    /\ lockUpdateInProgress' = FALSE
    /\ UNCHANGED Platform /\ UNCHANGED <<services, config, device, deviceRefreshRate, devicePushRate, dueTime, subscription, refetches, cmds, burst, lastSet, sent, unhandled>>
    /\ UNCHANGED Polling

\* pushChangesSucceeded that also takes the requested state as the current one
pushChangesSucceeded_Optimistic(st) ==
    updateHomeKitCharacteristics(
        [st EXCEPT !.logged = @ \cup {"Sending request to August API"},
                   !.LockCurrentState = st.LockTargetState])

\* pushChanges after the command's call returned
pushChangesSucceeded(st) ==
    updateHomeKitCharacteristics(
        [st EXCEPT !.logged = @ \cup {"Sending request to August API"}])

\* pushChangesFailed that also rolls the target back to the current state
pushChangesFailed_Rollback(st, code) ==
    [statusCode(st, code) EXCEPT
        !.logged = @ \cup {"debug pushChanges"},
        !.LockTargetState = IF st.LockCurrentState = SECURED THEN SECURED ELSE UNSECURED]

\* pushChanges after the command's call rejected: its own catch
pushChangesFailed(st, code) ==
    [statusCode(st, code) EXCEPT !.logged = @ \cup {"debug pushChanges"}]

\* the i-th outstanding command returns
CommandOk(i) ==
    /\ i \in 1..Len(cmds)
    /\ cmds' = RemoveAt(cmds, i)
    /\ Store(pushChangesSucceeded(Self))
    /\ lockUpdateInProgress' = FALSE
    /\ UNCHANGED Platform /\ UNCHANGED <<services, config, device, deviceRefreshRate, devicePushRate, dueTime, subscription, refetches, debounce, burst, lastSet, sent, unhandled>>
    /\ UNCHANGED Polling

\* CommandFail, had the error left the subscriber before its last statement
CommandFail_Escapes(i, code) ==
    /\ i \in 1..Len(cmds)
    /\ cmds' = RemoveAt(cmds, i)
    /\ Store(pushChangesFailed(Self, code))
    /\ unhandled' = TRUE
    /\ UNCHANGED Platform
    /\ UNCHANGED <<services, config, device, deviceRefreshRate, devicePushRate, dueTime, subscription, refetches,
                   lockUpdateInProgress, debounce, burst, lastSet, sent>>
    /\ UNCHANGED Polling

\* the i-th outstanding command rejects with an error whose message starts with code
CommandFail(i, code) ==
    /\ i \in 1..Len(cmds)
    /\ cmds' = RemoveAt(cmds, i)
    /\ Store(pushChangesFailed(Self, code))
    /\ unhandled' = (unhandled \/ pushChangesFailed(Self, code).threw)
    /\ lockUpdateInProgress' = FALSE
    /\ UNCHANGED Platform /\ UNCHANGED <<services, config, device, deviceRefreshRate, devicePushRate, dueTime, subscription, refetches, debounce, burst, lastSet, sent>>
    /\ UNCHANGED Polling

(***************************************************************************)
(* The handler of the first listing of src/src/devices/lock.ts, which      *)
(* keeps its lock state in this.Lock and writes the info-level messages    *)
(* 'was Locked' / 'was Unlocked' itself.                                   *)
(***************************************************************************)
\* payloads of these runs; the third has neither lock flag and neither door
\* flag set
InfoSnaps ==
    {LockedSnap, UnlockedSnap,
     Snapshot(FALSE, FALSE, FALSE, FALSE, FALSE, FALSE, "init"),
     Snapshot(TRUE, FALSE, FALSE, FALSE, TRUE, FALSE, "open")}
InfoDetails == {Details(820, 1, s) : s \in InfoSnaps}

\* updateHomeKitCharacteristics: context.LockCurrentState is first given the
\* target and then the current state
Lock_updateHomeKitCharacteristics(st) ==
    LET ctx == Put(Put(Put(Put(st.context,
                   "LockCurrentState", st.LockCurrentState),
                   "BatteryLevel", st.BatteryLevel),
                   "StatusLowBattery", st.StatusLowBattery),
                   "ContactSensorState", st.ContactSensorState)
        h == Put(Put(Put(Put(Put(st.host,
                   "LockTargetState", st.LockTargetState),
                   "LockCurrentState", st.LockCurrentState),
                   "BatteryLevel", st.BatteryLevel),
                   "StatusLowBattery", st.StatusLowBattery),
                   "ContactSensorState", st.ContactSensorState)
    IN  [st EXCEPT !.context = ctx, !.host = h,
                   !.written = {"LockTargetState", "LockCurrentState", "BatteryLevel",
                                "StatusLowBattery", "ContactSensorState"}]

\* the number of refreshStatus calls the subscription callback makes for e
Lock_EventRefreshes(e) ==
    (IF ~e.unlocked /\ ~e.locked THEN 1 ELSE 0) + (IF ~e.open /\ ~e.closed THEN 1 ELSE 0)

\* the callback of August.subscribe
Lock_AugustEvent(st, e) ==
    LET a == IF e.unlocked
             THEN [st EXCEPT !.LockCurrentState = UNSECURED, !.LockTargetState = UNSECURED,
                        !.logged = IF GetOr(st.context, "LockCurrentState", 0 - 1) # UNSECURED
                                   THEN @ \cup {"was Unlocked"} ELSE @]
             ELSE IF e.locked
             THEN [st EXCEPT !.LockCurrentState = SECURED, !.LockTargetState = SECURED,
                        !.logged = IF GetOr(st.context, "LockCurrentState", 0 - 1) # SECURED
                                   THEN @ \cup {"was Locked"} ELSE @]
             ELSE st
        b == IF e.open
             THEN [a EXCEPT !.ContactSensorState = CONTACT_NOT_DETECTED,
                        !.logged = IF GetOr(a.context, "ContactSensorState", 0 - 1) # CONTACT_NOT_DETECTED
                                   THEN @ \cup {"was Opened"} ELSE @]
             ELSE IF e.closed
             THEN [a EXCEPT !.ContactSensorState = CONTACT_DETECTED,
                        !.logged = IF GetOr(a.context, "ContactSensorState", 0 - 1) # CONTACT_DETECTED
                                   THEN @ \cup {"was Closed"} ELSE @]
             ELSE a
    IN  Lock_updateHomeKitCharacteristics(b)

\* parseStatus and updateHomeKitCharacteristics on the details refreshStatus
\* received
Lock_refreshStatusDetails(st, d) ==
    LET s == d.LockStatus
        level == BatteryPercent(d.battery)
        a == [st EXCEPT !.lockDetails = <<d>>,
                        !.LockCurrentState = LockStateOf(s),
                        !.BatteryLevel = level,
                        !.StatusLowBattery = LowBattery(level),
                        !.ContactSensorState =
                            IF s.open THEN CONTACT_NOT_DETECTED
                            ELSE IF s.closed THEN CONTACT_DETECTED
                            ELSE IF s.doorState = "open" THEN CONTACT_NOT_DETECTED
                            ELSE IF s.doorState = "closed" THEN CONTACT_DETECTED
                            ELSE @]
        b == IF GetOr(st.context, "currentFirmwareVersion", 0) # d.currentFirmwareVersion
             THEN [a EXCEPT !.logged = @ \cup {"Firmware Version changed"},
                            !.host = Put(@, "FirmwareRevision", d.currentFirmwareVersion)]
             ELSE a
    IN  Lock_updateHomeKitCharacteristics(b)

\* the state the constructor leaves from an empty context: cacheState, the
\* first refreshStatus under way, updateHomeKitCharacteristics
InitInfo ==
    /\ config = NoOptions
    /\ device = [hide_lock |-> FALSE, hide_contactsensor |-> FALSE]
    /\ deviceRefreshRate = DefaultRefreshRate
    /\ devicePushRate = DefaultPushRate
    /\ dueTime = Lock_PipelineDueTime(config)
    /\ subscription = "subscribed"
    /\ refetches = 0
    /\ services = AllServices
    /\ PlatformDone
    /\ LockTargetState = SECURED
    /\ LockCurrentState = SECURED
    /\ ContactSensorState = CONTACT_NOT_DETECTED
    /\ BatteryLevel = DefaultBatteryLevel
    /\ StatusLowBattery = BATTERY_LEVEL_NORMAL
    /\ context = [k \in {"LockCurrentState", "BatteryLevel", "StatusLowBattery",
                         "ContactSensorState"} |->
                    IF k = "LockCurrentState" THEN SECURED
                    ELSE IF k = "BatteryLevel" THEN DefaultBatteryLevel
                    ELSE IF k = "StatusLowBattery" THEN BATTERY_LEVEL_NORMAL
                    ELSE CONTACT_NOT_DETECTED]
    /\ host = [k \in {"LockTargetState", "LockCurrentState", "BatteryLevel",
                      "StatusLowBattery", "ContactSensorState"} |->
                    IF k \in {"LockTargetState", "LockCurrentState"} THEN SECURED
                    ELSE IF k = "BatteryLevel" THEN DefaultBatteryLevel
                    ELSE IF k = "StatusLowBattery" THEN BATTERY_LEVEL_NORMAL
                    ELSE CONTACT_NOT_DETECTED]
    /\ written = {}
    /\ logged = {}
    /\ lockEvent = <<>>
    /\ polled = <<>>
    /\ lockUpdateInProgress = FALSE
    /\ debounce = "idle"
    /\ taking = FALSE
    /\ fetchInFlight = 1
    /\ cmds = <<>>
    /\ unhandled = FALSE
    /\ burst = 0
    /\ lastSet = SECURED
    /\ sent = <<>>

\* setLockTargetState: after doLockUpdate.next() it writes 'was Unlocked' or
\* 'was Locked' for the current state
Lock_setLockTargetState(value) ==
    /\ debounce = "armed" => burst < MaxBurst
    /\ LockTargetState' = value
    /\ context' = Put(context, "LockTargetState", value)
    /\ lockUpdateInProgress' = TRUE
    /\ debounce' = "armed"
    /\ burst' = IF debounce = "armed" THEN burst + 1 ELSE 1
    /\ lastSet' = value
    /\ sent' = IF debounce = "armed" THEN sent ELSE <<>>
    /\ logged' = IF LockCurrentState = UNSECURED THEN {"was Unlocked"}
                 ELSE IF LockCurrentState = SECURED THEN {"was Locked"}
                 ELSE {}
    /\ written' = {} /\ polled' = <<>>
    /\ UNCHANGED Platform /\ UNCHANGED <<services, config, device, deviceRefreshRate, devicePushRate, dueTime, subscription, refetches, LockCurrentState, ContactSensorState,
                   BatteryLevel, StatusLowBattery, host, lockEvent, cmds, unhandled>>
    /\ UNCHANGED Polling

\* the debounce timer expires; pushChanges sends the command of the target
Lock_pushChanges ==
    /\ debounce = "armed"
    /\ Len(cmds) < MaxCmds
    /\ debounce' = "idle"
    /\ cmds' = Append(cmds, CommandFor(LockTargetState))
    /\ sent' = Append(sent, CommandFor(LockTargetState))
    /\ written' = {} /\ logged' = {} /\ polled' = <<>>
    /\ UNCHANGED Platform /\ UNCHANGED <<services, config, device, deviceRefreshRate, devicePushRate, dueTime, subscription, refetches, lockUpdateInProgress, burst, lastSet, unhandled>>
    /\ UNCHANGED Polling
    /\ UNCHANGED Canonical

\* the i-th outstanding command returns or rejects (pushChanges catches); the
\* subscriber starts the one-shot refresh and clears lockUpdateInProgress
Lock_CommandReturn(i) ==
    /\ refetches' = 0
    /\ i \in 1..Len(cmds)
    /\ fetchInFlight <= MaxFetch
    /\ cmds' = RemoveAt(cmds, i)
    /\ fetchInFlight' = fetchInFlight + 1
    /\ lockUpdateInProgress' = FALSE
    /\ written' = {} /\ logged' = {} /\ polled' = <<>>
    /\ UNCHANGED Platform /\ UNCHANGED <<services, config, device, deviceRefreshRate, devicePushRate, dueTime, subscription, taking, debounce, burst, lastSet, sent, unhandled>>
    /\ UNCHANGED Canonical

Lock_PushEvent(e) ==
    /\ refetches' = 0
    /\ subscription = "subscribed"
    /\ fetchInFlight + Lock_EventRefreshes(e) <= MaxFetch + 1
    /\ fetchInFlight' = fetchInFlight + Lock_EventRefreshes(e)
    /\ Store(Lock_AugustEvent(Self, e))
    /\ UNCHANGED Platform /\ UNCHANGED <<services, config, device, deviceRefreshRate, devicePushRate, dueTime, subscription, taking, unhandled>>
    /\ UNCHANGED Pipeline

\* the callback receives an event that has no state: reading
\* AugustEvent.state.unlocked throws before any assignment, nothing in the
\* callback catches it, updateHomeKitCharacteristics is not reached
Lock_PushEventNoState ==
    /\ subscription = "subscribed"
    /\ unhandled' = TRUE
    /\ written' = {} /\ logged' = {} /\ polled' = <<>>
    /\ UNCHANGED Platform /\ UNCHANGED <<services, config, device, deviceRefreshRate, devicePushRate, dueTime, subscription, refetches, taking, fetchInFlight>>
    /\ UNCHANGED Pipeline
    /\ UNCHANGED Canonical

\* augustConfig.details returns d; a reading with neither lock flag set
\* makes parseStatus call refreshStatus again
Lock_PollReturn(d) ==
    /\ LockStateOf(d.LockStatus) = UNKNOWN => refetches < MaxRefetch
    /\ refetches' = IF LockStateOf(d.LockStatus) = UNKNOWN
                    THEN refetches + 1 ELSE refetches
    /\ fetchInFlight > 0
    /\ fetchInFlight' = IF LockStateOf(d.LockStatus) = UNKNOWN
                        THEN fetchInFlight ELSE fetchInFlight - 1
    /\ Store(Lock_refreshStatusDetails(Self, d))
    /\ UNCHANGED Platform /\ UNCHANGED <<services, config, device, deviceRefreshRate, devicePushRate, dueTime, subscription, taking, unhandled>>
    /\ UNCHANGED Pipeline

(***************************************************************************)
(* Specifications                                                          *)
(***************************************************************************)
\* the whole handler, on the payloads of the command pipeline runs
Next ==
    \/ \E v \in TargetValues : setLockTargetState(v)
    \/ pushChangesSend
    \/ pushChangesSkip
    \/ \E i \in 1..MaxCmds : CommandOk(i)
    \/ \E i \in 1..MaxCmds, code \in ErrorCodes : CommandFail(i, code)
    \/ TickSkip
    \/ TickFetch
    \/ TickOff
    \/ \E d \in PipeDetails : PollReturn(d)
    \/ \E code \in ErrorCodes : PollFail(code)
    \/ \E e \in PipeSnaps : PushEvent(e)
    \/ Restart

Spec == Init /\ [][Next]_vars

\* the reconciliation of polls and push events while the host sets nothing
NextMerge ==
    \/ TickFetch
    \/ TickOff
    \/ \E d \in MergeDetails : PollReturn(d)
    \/ \E code \in ErrorCodes : PollFail(code)
    \/ \E e \in MergeSnaps : PushEvent(e)
    \/ Restart

SpecMerge == InitMerge /\ [][NextMerge]_vars

\* the handler of the first listing of lock.ts
NextInfo ==
    \/ \E v \in TargetValues : Lock_setLockTargetState(v)
    \/ Lock_pushChanges
    \/ \E i \in 1..MaxCmds : Lock_CommandReturn(i)
    \/ \E e \in InfoSnaps : Lock_PushEvent(e)
    \/ Lock_PushEventNoState
    \/ \E d \in InfoDetails : Lock_PollReturn(d)
    \/ TickSkip
    \/ TickFetch

SpecInfo == InitInfo /\ [][NextInfo]_vars

\* the command pipeline on a lock whose polls may report neither lock flag
PushDetails ==
    {Details(820, 1, s) :
        s \in {LockedSnap, UnlockedSnap,
               Snapshot(FALSE, FALSE, FALSE, FALSE, FALSE, TRUE, "closed")}}

InitPush ==
    Constructed({<<[hide_lock |-> FALSE, hide_contactsensor |-> FALSE], DefaultRefreshRate>>})

NextPush ==
    \/ \E v \in TargetValues : setLockTargetState(v)
    \/ pushChangesSend
    \/ pushChangesSkip
    \/ \E i \in 1..MaxCmds : CommandOk(i)
    \/ TickFetch
    \/ \E d \in PushDetails : PollReturn(d)
    \/ \E e \in PipeSnaps : PushEvent(e)

SpecPush == InitPush /\ [][NextPush]_vars

\* the handler from the return of its constructor, subscribeAugust under way
InitSubscribe ==
    /\ device = [hide_lock |-> FALSE, hide_contactsensor |-> FALSE]
    /\ deviceRefreshRate = DefaultRefreshRate
    /\ config = NoOptions
    /\ devicePushRate = DefaultPushRate
    /\ dueTime = PipelineDueTime
    /\ subscription = "pending"
    /\ refetches = 0
    /\ Fresh
    /\ PlatformDone

NextSubscribe ==
    \/ subscribeAugustOk
    \/ subscribeAugustRejects
    \/ \E e \in PipeSnaps : PushEvent(e)
    \/ TickFetch
    \/ \E d \in PipeDetails : PollReturn(d)
    \/ \E v \in TargetValues : setLockTargetState(v)
    \/ pushChangesSend
    \/ \E i \in 1..MaxCmds : CommandOk(i)

SpecSubscribe == InitSubscribe /\ [][NextSubscribe]_vars

\* the command pipeline and the push subscription; every debounce timer
\* expires and every vendor call returns or rejects
NextLive ==
    \/ \E v \in TargetValues : setLockTargetState(v)
    \/ pushChangesSend
    \/ pushChangesSkip
    \/ \E i \in 1..MaxCmds : CommandOk(i)
    \/ \E i \in 1..MaxCmds, code \in ErrorCodes : CommandFail(i, code)
    \/ \E e \in PipeSnaps : PushEvent(e)

SpecLive ==
    /\ Init
    /\ [][NextLive]_vars
    /\ WF_vars(pushChangesSend \/ pushChangesSkip)
    /\ WF_vars(\/ \E i \in 1..MaxCmds : CommandOk(i)
               \/ \E i \in 1..MaxCmds, code \in ErrorCodes : CommandFail(i, code))

\* handlers constructed with each rate configuration
NextRates ==
    \/ \E v \in TargetValues : setLockTargetState(v)
    \/ pushChangesSend
    \/ pushChangesSkip
    \/ \E i \in 1..MaxCmds : CommandOk(i)
    \/ TickSkip
    \/ TickFetch
    \/ TickOff
    \/ PollReturn(Details(820, 1, LockedSnap))

SpecRates == InitRates /\ [][NextRates]_vars

\* discoverDevices hands each lock to Lock, one after the other
NextPlatform == Lock

SpecPlatform == InitPlatform /\ [][NextPlatform]_vars

\* the launch of the platform
NextLaunch ==
    \/ didFinishLaunching
    \/ \E isValidated \in {"true", "false"} : validateReturns(isValidated)
    \/ validateRejects
    \/ discoverDevices
    \/ discoverDevicesRejects
    \/ Lock

SpecLaunch == InitLaunch /\ [][NextLaunch]_vars

(***************************************************************************)
(* Properties                                                              *)
(***************************************************************************)
Tick == TickSkip \/ TickFetch \/ TickOff

\* the debounce timer expires (a restart also disarms it, and ends the burst)
Expiry == debounce = "armed" /\ debounce' = "idle" /\ burst' = burst

\* C1, as stated: a burst of setLockTargetState calls within one debounce
\* window sends exactly one command, after the window of the last call has
\* expired, and it is the command for the last value set.
C1_ExactlyOneCommand ==
    /\ debounce = "armed" => sent = <<>>
    /\ (debounce = "idle" /\ burst > 0) =>
           sent = <<IF lastSet = UNSECURED THEN "unlock" ELSE "lock">>

\* C1, amended: a burst sends no command before the window of its last call
\* expires and at most one at the expiry: the command for the last value
\* set when that value differs from LockCurrentState at the expiry, and no
\* command when it equals LockCurrentState.
C1_CoalescedCommand ==
    /\ [](debounce = "armed" => sent = <<>>)
    /\ [][Expiry =>
            IF lastSet # LockCurrentState
            THEN /\ sent' = <<IF lastSet = UNSECURED THEN "unlock" ELSE "lock">>
                 /\ cmds' = Append(cmds, sent'[1])
            ELSE sent' = <<>> /\ cmds' = cmds]_vars
    /\ [][Len(cmds') > Len(cmds) => Expiry]_vars

\* a burst [.., .., Unlocked] of three calls on a Locked lock has expired and
\* one unlock was sent
C1_Witness ==
    /\ debounce = "idle" /\ burst = 3 /\ lastSet = UNSECURED
    /\ LockCurrentState = SECURED
    /\ sent = <<"unlock">>

\* C2, as stated: a poll-timer tick that occurs while lockUpdateInProgress
\* is true issues no details fetch.
C2_GuardSuppression ==
    [][(Tick /\ lockUpdateInProgress) => fetchInFlight' = fetchInFlight]_vars

\* C3: a failed lock/unlock command leaves LockCurrentState unchanged and
\* LockTargetState at the value the user requested, no exception escapes,
\* and the poll-timer tick that follows the failure (polling enabled)
\* fetches the details.
C3_CommandFailure ==
    /\ [][(\E i \in 1..MaxCmds, code \in ErrorCodes : CommandFail(i, code)) =>
            /\ LockCurrentState' = LockCurrentState
            /\ LockTargetState' = LockTargetState
            /\ LockTargetState' = lastSet
            /\ ~unhandled']_vars
    /\ [][("debug pushChanges" \in logged /\ deviceRefreshRate # 0 /\ Tick) =>
            fetchInFlight' = fetchInFlight + 1]_vars

\* an unlock has just failed with a 429: target Unsecured, state Secured
C3_Witness ==
    /\ {"debug pushChanges", "Too Many Requests"} \subseteq logged
    /\ LockTargetState = UNSECURED /\ LockCurrentState = SECURED
    /\ ~lockUpdateInProgress /\ ~unhandled

\* a snapshot with no transient flag whose locked and unlocked flags agree
Ambiguous(s) == ~s.locking /\ ~s.unlocking /\ s.locked = s.unlocked

\* a snapshot with a transient flag
Transient(s) == s.locking \/ s.unlocking

\* C4: a snapshot from a poll or a push event with locking and unlocking
\* false and locked equal to unlocked leaves LockCurrentState UNKNOWN: not
\* JAMMED, not SECURED/UNSECURED, not the value held before the merge.
C4_AmbiguousIsUnknown ==
    [][(/\ ~device.hide_lock
        /\ \/ \E d \in MergeDetails : Ambiguous(d.LockStatus) /\ PollReturn(d)
           \/ \E e \in MergeSnaps : Ambiguous(e) /\ PushEvent(e))
       => LockCurrentState' = UNKNOWN]_vars

\* C5: a snapshot from a poll or a push event with locking or unlocking
\* true, whatever its other flags, leaves LockCurrentState as it was before
\* the merge.
C5_TransientKeepsState ==
    [][(/\ ~device.hide_lock
        /\ \/ \E d \in MergeDetails : Transient(d.LockStatus) /\ PollReturn(d)
           \/ \E e \in MergeSnaps : Transient(e) /\ PushEvent(e))
       => LockCurrentState' = LockCurrentState]_vars

\* C6: in every reachable state BatteryLevel is an integer in 0..100 (the
\* stored level is round(b * 100) clamped to [0, 100]).
C6_BatteryInRange == BatteryLevel \in 0..100

Canon(st) ==
    <<st.LockCurrentState, st.LockTargetState, st.ContactSensorState,
      st.BatteryLevel, st.StatusLowBattery,
      GetOr(st.context, "currentFirmwareVersion", 0)>>

\* C8: merging a snapshot is idempotent: from every state, merging a polled
\* snapshot or a push event twice in a row leaves the same LockCurrentState,
\* LockTargetState, ContactSensorState, BatteryLevel, StatusLowBattery and
\* stored firmware version as merging it once.
C8_MergeIdempotent ==
    /\ \A d \in MergeDetails :
         LET once == refreshStatusDetails(Self, d)
         IN  Canon(refreshStatusDetails(once, d)) = Canon(once)
    /\ \A e \in MergeSnaps :
         LET once == AugustEvent(Self, e)
         IN  Canon(AugustEvent(once, e)) = Canon(once)

\* a poll whose flags are both false has just been merged over a determined
\* push event: LockCurrentState is UNKNOWN, and merging it again changes nothing
C8_Witness ==
    /\ polled # <<>> /\ written # {}
    /\ lockEvent # <<>>
    /\ ~polled[1].LockStatus.locked /\ ~polled[1].LockStatus.unlocked
    /\ LockCurrentState = UNKNOWN
    /\ BatteryLevel = 82
    /\ Canon(refreshStatusDetails(Self, polled[1])) = Canon(Self)

\* the characteristics updateHomeKitCharacteristics writes
Visible ==
    (IF device.hide_lock THEN {} ELSE {"LockTargetState", "LockCurrentState"})
    \cup {"BatteryLevel", "StatusLowBattery"}
    \cup (IF device.hide_contactsensor THEN {} ELSE {"ContactSensorState"})

\* the handler's value of a characteristic
Current(c) ==
    IF c = "LockTargetState" THEN LockTargetState
    ELSE IF c = "LockCurrentState" THEN LockCurrentState
    ELSE IF c = "BatteryLevel" THEN BatteryLevel
    ELSE IF c = "StatusLowBattery" THEN StatusLowBattery
    ELSE ContactSensorState

WellFormed(d) ==
    /\ ~Transient(d.LockStatus)
    /\ d.LockStatus.locked # d.LockStatus.unlocked
    /\ d.battery \in 0..1000

\* C10: every poll whose fetch returns a well-formed snapshot is applied:
\* when it completes, LockCurrentState, ContactSensorState, BatteryLevel and
\* StatusLowBattery are the values derived from the snapshot and have been
\* written to the host, the first poll after construction included.
C10_PollApplied ==
    (polled # <<>> /\ WellFormed(polled[1])) =>
        LET s == polled[1].LockStatus IN
        /\ ~device.hide_lock => LockCurrentState = LockStateOf(s)
        /\ (~device.hide_contactsensor /\ s.open # s.closed) =>
              ContactSensorState =
                 (IF s.open THEN CONTACT_NOT_DETECTED ELSE CONTACT_DETECTED)
        /\ BatteryLevel = BatteryPercent(polled[1].battery)
        /\ StatusLowBattery = LowBattery(BatteryLevel)
        /\ written = Visible
        /\ \A c \in Visible : host[c] = Current(c)

\* C11: 'was Locked' / 'was Unlocked' are written only by a step that
\* changes LockCurrentState to that value by merging a snapshot without a
\* transient flag: never at a setLockTargetState call, never by a poll or a
\* push event that repeats the current state.
C11_InfoOnlyOnChange ==
    [][/\ "was Locked" \in logged' =>
            LockCurrentState' = SECURED /\ LockCurrentState # SECURED
       /\ "was Unlocked" \in logged' =>
            LockCurrentState' = UNSECURED /\ LockCurrentState # UNSECURED]_vars

C19_InFlightImpliesInProgress == Len(cmds) > 0 => lockUpdateInProgress

\* C20: outbound commands of one lock are serialized: at any time at most
\* one lock/unlock command is in flight
C20_AtMostOneInFlight == Len(cmds) <= 1

\* C18: after a command has failed, leaving LockTargetState different from
\* LockCurrentState, with polling enabled a poll that then succeeds with a
\* stable snapshot makes the LockTargetState and LockCurrentState shown to
\* the host agree again.  The poll taken here is one whose lock state is
\* applied: a push event with one of locked and unlocked set came before.
C18_PollReconciles ==
    [][(/\ "debug pushChanges" \in logged
        /\ LockTargetState # LockCurrentState
        /\ ~device.hide_lock /\ deviceRefreshRate # 0
        /\ lockEvent # <<>> /\ lockEvent[1].locked # lockEvent[1].unlocked
        /\ \E d \in PipeDetails : WellFormed(d) /\ PollReturn(d))
       => GetOr(host, "LockTargetState", UNKNOWN)' = GetOr(host, "LockCurrentState", UNKNOWN)']_vars

C13_RefreshRateFloor ==
    Truthy(device.refreshRate) =>
        deviceRefreshRate = (IF device.refreshRate < RefreshRateFloor
                             THEN RefreshRateFloor ELSE device.refreshRate)

\* C16: the debounce window of the pipeline, and the handler's
\* devicePushRate, are the device's pushRate if configured, else the
\* platform's pushRate if configured, else 1; a configured 0 at either level
\* gives the window 0
C16_PushRatePrecedence ==
    \A window \in {dueTime, devicePushRate} : window =
        (IF device.pushRate # Undefined THEN device.pushRate
         ELSE IF config.options.pushRate # Undefined THEN config.options.pushRate
         ELSE DefaultPushRate)

\* C14: with hide_lock set, the accessory has no LockMechanism service after
\* construction (also when it was restored from cache with that service),
\* construction raises no error, and no lock/unlock command is ever sent
C14_HiddenLock ==
    device.hide_lock =>
        /\ "LockMechanism" \notin services
        /\ ~unhandled
        /\ cmds = <<>> /\ sent = <<>>

\* C15: a discovered lock the vendor reports as homeKitEnabled gets an
\* accessory and a handler if and only if its config sets
\* overrideHomeKitEnabled; without the override no accessory is registered
\* for it and one restored from cache is unregistered
C15_HomeKitEnabledNeedsOverride ==
    [][(Lock /\ discovered[handled + 1].homeKitEnabled) =>
          LET dev == discovered[handled + 1]
              id == dev.lockId
          IN  /\ id \in handlers' <=> dev.overrideHomeKitEnabled
              /\ dev.overrideHomeKitEnabled =>
                    id \in accessories' /\ id \in registered' \cup published'
              /\ ~dev.overrideHomeKitEnabled =>
                    /\ id \notin registered' \cup published'
                    /\ id \notin accessories => id \notin accessories']_vars

\* both locks are homeKitEnabled and were restored from cache; the first has
\* the override and has its handler, the second has not and was unregistered
C15_Witness ==
    /\ handled = 2
    /\ discovered[1].homeKitEnabled /\ discovered[1].overrideHomeKitEnabled
    /\ discovered[2].homeKitEnabled /\ ~discovered[2].overrideHomeKitEnabled
    /\ accessories = {1, 2}
    /\ handlers = {1} /\ registered = {1} /\ published = {}

\* C21: the command sent when the debounce window expires is the one for the
\* target the user set last, whatever push events or poll results were
\* merged between the set call and the expiry
C21_CommandForLastSet ==
    [][(debounce = "armed" /\ debounce' = "idle" /\ Len(sent') = Len(sent) + 1)
         => sent'[Len(sent')] = CommandFor(lastSet)]_vars

\* C22: with refreshRate not 0, the completion of an outbound command,
\* successful or failed, starts exactly one confirmatory details fetch
C22_ConfirmatoryFetch ==
    [][(/\ deviceRefreshRate # 0
        /\ \/ \E i \in 1..MaxCmds : CommandOk(i)
           \/ \E i \in 1..MaxCmds, code \in ErrorCodes : CommandFail(i, code))
       => fetchInFlight' = fetchInFlight + 1]_vars

C24_PushNotOverwritten ==
    [][(/\ written # {} /\ polled = <<>>
        /\ lockEvent # <<>> /\ ~Transient(lockEvent[1])
        /\ lockEvent[1].locked # lockEvent[1].unlocked
        /\ \E d \in MergeDetails : PollReturn(d))
       => /\ LockCurrentState' = LockCurrentState
          /\ ContactSensorState' = ContactSensorState]_vars

\* C25: from every state, merging a well-formed polled snapshot and then a
\* well-formed push event without transient flags gives the same canonical
\* state as merging them in the other order
C25_MergeCommutes ==
    \A d \in MergeDetails, e \in MergeSnaps :
        (WellFormed(d) /\ ~Transient(e) /\ e.locked # e.unlocked) =>
            Canon(AugustEvent(refreshStatusDetails(Self, d), e))
                = Canon(refreshStatusDetails(AugustEvent(Self, e), d))

\* C26: a details fetch that fails, or whose result fails to parse part-way,
\* changes no field of the canonical state (LockCurrentState,
\* LockTargetState, ContactSensorState, BatteryLevel, StatusLowBattery) and
\* nothing on the host, and leaves room for the next tick's fetch
C26_FailedFetchNoChange ==
    [][(\/ \E code \in ErrorCodes : PollFail(code)
        \/ \E d \in MergeDetails : PollReturn(d) /\ "error pushChanges" \in logged')
       => /\ UNCHANGED <<LockCurrentState, LockTargetState, ContactSensorState,
                         BatteryLevel, StatusLowBattery, host>>
          /\ fetchInFlight' < fetchInFlight]_vars

\* C27: a push event whose state field is missing changes neither
\* LockCurrentState nor ContactSensorState and raises no exception out of the
\* subscription callback
C27_NoStateNoThrow ==
    [][Lock_PushEventNoState
       => /\ LockCurrentState' = LockCurrentState
          /\ ContactSensorState' = ContactSensorState
          /\ ~unhandled']_vars

\* C28: a failure while establishing the push subscription at construction
\* (credentials missing, or the vendor's subscribe rejecting) is caught and
\* logged where subscribeAugust is called and does not escape as an
\* unhandled error
C28_SubscribeFailureCaught ==
    [][subscribeAugustRejects
       => (~unhandled' /\ "error subscribeAugust" \in logged')]_vars

\* C29: whenever a merge takes LockCurrentState to UNKNOWN and the refresh
\* rate is not 0, a further details fetch is started at once, so that as many
\* fetches are under way after the merge of a poll as before it; with a
\* refresh rate of 0 no fetch is started
C29_UnknownRefetches ==
    [][(/\ \/ \E d \in MergeDetails : PollReturn(d)
           \/ \E e \in MergeSnaps : PushEvent(e)
        /\ LockCurrentState # UNKNOWN
        /\ LockCurrentState' = UNKNOWN)
       => IF deviceRefreshRate # 0
          THEN fetchInFlight' + (IF polled' # <<>> THEN 1 ELSE 0) = fetchInFlight + 1
          ELSE fetchInFlight' = 0]_vars

\* C30: one trigger (a tick of the poll timer, a push event, a command's
\* completion) causes a bounded number of details fetches: the chain of
\* refreshStatus calls that parseStatus makes by itself ends before the
\* horizon the model follows it to, whatever the device keeps reporting
C30_BoundedRefetches == refetches < MaxRefetch

\* C31: after the merge of a polled snapshot or of a push event, with the
\* contact sensor shown, ContactSensorState is CONTACT_NOT_DETECTED if the
\* open flag is set, else CONTACT_DETECTED if the closed flag is set, else
\* what the textual doorState says, else the value held before the merge
C31_ContactPriority ==
    [][(/\ ~device.hide_contactsensor
        /\ \/ \E d \in MergeDetails : PollReturn(d)
           \/ \E e \in MergeSnaps : PushEvent(e))
       => LET s == IF polled' # <<>> THEN polled'[1].LockStatus ELSE lockEvent'[1]
          IN  ContactSensorState' =
                 IF s.open THEN CONTACT_NOT_DETECTED
                 ELSE IF s.closed THEN CONTACT_DETECTED
                 ELSE IF s.doorState = "open" THEN CONTACT_NOT_DETECTED
                 ELSE IF s.doorState = "closed" THEN CONTACT_DETECTED
                 ELSE ContactSensorState]_vars

\* C32: a setLockTargetState call, the expiry of the debounce window with or
\* without a command, and the return or the rejection of the command all
\* leave LockCurrentState as it was; only merges of polls and of push events
\* change it
C32_OnlyMergesSetCurrent ==
    [][(\/ \E v \in TargetValues : setLockTargetState(v)
        \/ pushChangesSend
        \/ pushChangesSkip
        \/ \E i \in 1..MaxCmds : CommandOk(i)
        \/ \E i \in 1..MaxCmds, code \in ErrorCodes : CommandFail(i, code))
       => LockCurrentState' = LockCurrentState]_vars

\* an unlock command has returned and the lock is still held as SECURED
C32_Witness ==
    /\ "Sending request to August API" \in logged
    /\ sent # <<>> /\ cmds = <<>>
    /\ LockTargetState = UNSECURED
    /\ LockCurrentState = SECURED

\* C33: after every completed host update the persisted context holds, under
\* the key of each characteristic that was written, the handler's value of
\* that characteristic
C33_WriteThrough ==
    \A c \in written : c \in DOMAIN context /\ context[c] = Current(c)

\* C34: a handler just constructed from an empty persisted context holds
\* LockCurrentState SECURED, LockTargetState SECURED, ContactSensorState
\* CONTACT_DETECTED (door closed), BatteryLevel 100 and StatusLowBattery
\* BATTERY_LEVEL_NORMAL
C34_EmptyContextDefaults ==
    (context = EmptyStore /\ lockEvent = <<>> /\ polled = <<>> /\ sent = <<>> /\ burst = 0)
        => /\ LockCurrentState = SECURED
           /\ LockTargetState = SECURED
           /\ ContactSensorState = CONTACT_DETECTED
           /\ BatteryLevel = 100
           /\ StatusLowBattery = BATTERY_LEVEL_NORMAL

\* C35: LockCurrentState is never JAMMED: no merge of a poll or of a push
\* event and no restart from the persisted context sets it, the retry count
\* that is tested for it being 1
C35_NeverJammed == LockCurrentState # JAMMED

\* a poll with neither locked nor unlocked set has taken the retry test
C35_Witness ==
    /\ polled # <<>>
    /\ ~polled[1].LockStatus.locked /\ ~polled[1].LockStatus.unlocked
    /\ "LockCurrentState" \in written
    /\ LockCurrentState = UNKNOWN

\* C36: the merge of a polled result writes the firmware warning exactly when
\* the reported version differs from the stored one, and leaves the reported
\* version stored, so that a later poll with the same version is silent
C36_FirmwareOneShot ==
    [][(\E d \in InfoDetails : Lock_PollReturn(d))
       => LET fw == polled'[1].currentFirmwareVersion
          IN  /\ ("Firmware Version changed" \in logged')
                    = (GetOr(context, "currentFirmwareVersion", 0) # fw)
              /\ GetOr(context', "currentFirmwareVersion", 0) = fw]_vars

\* C37: when the debounce window expires with LockTargetState equal to
\* LockCurrentState, no command is sent and LockTargetState is left at
\* SECURED if LockCurrentState is SECURED and at UNSECURED otherwise; when
\* they differ, LockCurrentState UNKNOWN included, one command is sent
C37_CommandOnlyOnDifference ==
    [][(debounce = "armed" /\ debounce' = "idle")
       => IF LockTargetState = LockCurrentState
          THEN /\ sent' = sent /\ cmds' = cmds
               /\ LockTargetState' = (IF LockCurrentState = SECURED THEN SECURED ELSE UNSECURED)
          ELSE /\ sent' = Append(sent, CommandFor(LockTargetState))
               /\ cmds' = Append(cmds, CommandFor(LockTargetState))]_vars

\* a window has ended without a command on an unlocked lock
C37_Witness ==
    /\ debounce = "idle" /\ burst > 0 /\ sent = <<>> /\ cmds = <<>>
    /\ written # {} /\ lockEvent # <<>>
    /\ LockTargetState = UNSECURED /\ LockCurrentState = UNSECURED

\* C38: a discovered lock whose config sets hide_device gets no handler and
\* no accessory, registered or published, whatever homeKitEnabled and
\* overrideHomeKitEnabled are, and an accessory restored for it from cache
\* is unregistered
C38_HiddenDeviceNeverHandled ==
    [][(Lock /\ discovered[handled + 1].hide_device) =>
          LET id == discovered[handled + 1].lockId
          IN  /\ id \notin handlers'
              /\ id \notin registered' \cup published']_vars

\* C39: discoverDevices runs, and lock handlers exist, only when the session
\* is validated: isValidated was true at launch or August.validate has just
\* returned true; a launch that ends without validation leaves no handler;
\* and the validateCode is dropped from the saved config only by a
\* validation that succeeded
C39_DiscoveryOnlyWhenValidated ==
    /\ []((launch \in {"discoverDevices", "Lock"} \/ handlers # {} \/ discovered # <<>>)
             => credentials.isValidated = "true")
    /\ [](credentials.isValidated # "true" => handlers = {})
    /\ [][pluginConfig'.validateCode # pluginConfig.validateCode
             => (launch = "validate" /\ credentials'.isValidated = "true"
                 /\ pluginConfig'.validateCode = "undefined")]_vars

\* a validation with the configured code has succeeded, the code is gone from
\* the saved config and a handler has been constructed
C39_Witness ==
    /\ launch = "Lock" /\ handlers # {}
    /\ credentials.validateCode = "123456"
    /\ pluginConfig = [isValidated |-> "true", validateCode |-> "undefined"]
====
